---- MODULE Spec2Model ----
(***************************************************************************)
(* Model of the truncated blackbody packet source of the TARDIS notebook   *)
(* docs/running/custom_source.ipynb (TruncBlackbodySource) and of the      *)
(* top-level configuration schema (unnamed/part_000).                      *)
(*                                                                         *)
(* Two sources, "a" and "b", are constructed with the same seed and the    *)
(* same truncation wavelength and are handed the same create_packets       *)
(* arguments, one call after the other (the interpreter is single          *)
(* threaded: a call runs to its return before the next one begins).        *)
(*                                                                         *)
(* Units are scaled: the speed of light is C_LIGHT, a frequency is         *)
(* C_LIGHT / wavelength, and a blackbody frequency is the temperature      *)
(* times a dimensionless draw x in XLevels.                                *)
(***************************************************************************)
EXTENDS Integers, Sequences, FiniteSets, TLC

VARIABLES seed, truncation_wavelength, rng, args, pc, nus, mus, energies,
          start, batches, tick, config, verdict

vars == <<seed, truncation_wavelength, rng, args, pc, nus, mus, energies,
          start, batches, tick, config, verdict>>

sourceVars == <<seed, truncation_wavelength, rng, args, pc, nus, mus, energies,
                start, batches, tick>>

schemaVars == <<config, verdict>>

-----------------------------------------------------------------------------
(* Bounds of the model *)

\* largest no_of_packets a call is given
MaxPackets == 2

\* largest explicit drawing_sample_size a call is given
MaxSampleSize == 2

\* period of the pseudo-random stream a seed determines
Period == 3

\* the batches of one call are counted up to this number (the counter saturates;
\* the loop itself is not bounded, as in the code, and tick, the parity of the
\* passes made, tells one pass from the next when a pass changes nothing else)
MaxBatches == 7

-----------------------------------------------------------------------------
(* Scaled physical quantities *)

\* speed of light in the scaled units: frequency * wavelength = C_LIGHT
C_LIGHT == 12

\* drawing_sample_size=None
NoneSize == -1

Sources == {"a", "b"}

RECURSIVE Pow(_, _)
Pow(b, e) == IF e = 0 THEN 1 ELSE b * Pow(b, e - 1)

\* dimensionless draws x = h nu / (k T) of the blackbody sampler
XLevels == {1, 2, 3}

Temperatures == {1, 2}

Wavelengths == {4, 6}

\* one seed for every stream of the period
Seeds == 0 .. (Pow(Cardinality(XLevels), Period) - 1)

SampleSizes == {NoneSize} \cup (0 .. MaxSampleSize)

Arguments == [T : Temperatures, no_of_packets : 1 .. MaxPackets,
              drawing_sample_size : SampleSizes]

-----------------------------------------------------------------------------
(* The pseudo-random generator of BasePacketSource: a stream that is a     *)
(* function of the seed alone, read at the generator's position.           *)

RawDraw(sd, p) ==
    ((sd \div Pow(Cardinality(XLevels), p % Period)) % Cardinality(XLevels)) + 1

Advance(p, n) == (p + n) % Period

create_zero_limb_darkening_packet_mus(sd, p, n) ==
    [i \in 1 .. n |-> RawDraw(sd, p + i - 1)]

create_uniform_packet_energies(n) == [i \in 1 .. n |-> n]

create_blackbody_packet_nus(sd, p, T, n) ==
    [i \in 1 .. n |-> T * RawDraw(sd, p + i - 1)]

-----------------------------------------------------------------------------
(* create_packets, piece by piece *)

Take(s, n) == SubSeq(s, 1, IF Len(s) < n THEN Len(s) ELSE n)

\* variant: the default batch is no_of_packets, not twice that
DrawingSampleSizeSingle(dss, n) == IF dss = NoneSize THEN n ELSE dss

\* if drawing_sample_size is None: drawing_sample_size = 2 * no_of_packets
DrawingSampleSize(dss, n) == IF dss = NoneSize THEN 2 * n ELSE dss

\* variant: the wavelength is compared as if it were a frequency
TruncationFrequencyUnconverted(w) == w

\* u.Quantity(truncation_wavelength, Angstrom).to(Hz, equivalencies=spectral())
TruncationFrequency(w) == C_LIGHT \div w

\* variant: the mask is batch <= truncation_frequency
AcceptedInclusive(batch, tf) == SelectSeq(batch, LAMBDA x : x <= tf)

\* batch[batch < truncation_frequency]
Accepted(batch, tf) == SelectSeq(batch, LAMBDA x : x < tf)

\* nus = nus[nus < truncation_frequency][:no_of_packets]
FirstBatchKeep(batch, tf, n) == Take(Accepted(batch, tf), n)

\* variant: the stacked array is not cut to no_of_packets
ResampledUntrimmed(kept, batch, tf, n) == kept \o Take(Accepted(batch, tf), n)

\* variant: np.hstack([additional_nus, nus])
ResampledPrepended(kept, batch, tf, n) ==
    Take(Take(Accepted(batch, tf), n) \o kept, n)

\* variant: the new batch replaces what was kept instead of extending it
ResampledReplaced(kept, batch, tf, n) == Take(Accepted(batch, tf), n)

\* additional_nus = additional_nus[mask][:no_of_packets]
\* nus = np.hstack([nus, additional_nus])[:no_of_packets]
Resampled(kept, batch, tf, n) ==
    Take(kept \o Take(Accepted(batch, tf), n), n)

\* while nus.shape[0] < no_of_packets
LoopCondition(kept, n) == Len(kept) < n

CountBatch(b) == IF b < MaxBatches THEN b + 1 ELSE MaxBatches

\* the caller calls source "a" and, once that call has returned, source "b"
Turn(s) == s = "b" => pc["a"] = "returned"

-----------------------------------------------------------------------------
(* Actions of the packet sources *)

TypeOK ==
    /\ seed \in Seeds
    /\ truncation_wavelength \in [Sources -> Nat]
    /\ rng \in [Sources -> 0 .. (Period - 1)]
    /\ args \in Arguments
    /\ pc \in [Sources -> {"idle", "loop", "returned"}]
    /\ batches \in [Sources -> 0 .. MaxBatches]
    /\ tick \in {0, 1}

InitSources ==
    /\ seed \in Seeds
    /\ \E w \in Wavelengths : truncation_wavelength = [s \in Sources |-> w]
    /\ rng = [s \in Sources |-> 0]
    /\ args \in Arguments
    /\ pc = [s \in Sources |-> "idle"]
    /\ nus = [s \in Sources |-> <<>>]
    /\ mus = [s \in Sources |-> <<>>]
    /\ energies = [s \in Sources |-> <<>>]
    /\ start = [s \in Sources |-> 0]
    /\ batches = [s \in Sources |-> 0]
    /\ tick = 0

\* create_packets up to the first test of the while loop: mus, energies, the
\* first batch and its filter; the call returns at once when the first batch
\* already holds no_of_packets accepted frequencies.
CallWith(s, wavelengthAfter) ==
    LET n    == args.no_of_packets
        size == DrawingSampleSize(args.drawing_sample_size, n)
        tf   == TruncationFrequency(truncation_wavelength[s])
        p1   == Advance(rng[s], n)
        kept == FirstBatchKeep(
                    create_blackbody_packet_nus(seed, p1, args.T, size), tf, n)
    IN  /\ pc[s] = "idle"
        /\ Turn(s)
        /\ mus' = [mus EXCEPT ![s] =
                      create_zero_limb_darkening_packet_mus(seed, rng[s], n)]
        /\ energies' = [energies EXCEPT ![s] = create_uniform_packet_energies(n)]
        /\ nus' = [nus EXCEPT ![s] = kept]
        /\ rng' = [rng EXCEPT ![s] = Advance(p1, size)]
        /\ start' = [start EXCEPT ![s] = p1]
        /\ batches' = [batches EXCEPT ![s] = 1]
        /\ tick' = 0
        /\ pc' = [pc EXCEPT ![s] = IF LoopCondition(kept, n) THEN "loop"
                                                             ELSE "returned"]
        /\ truncation_wavelength' =
               [truncation_wavelength EXCEPT ![s] = wavelengthAfter]
        /\ UNCHANGED <<seed, args, schemaVars>>

\* variant: the call stores the converted frequency back into the attribute
CallClobbering(s) ==
    CallWith(s, TruncationFrequency(truncation_wavelength[s]))

Call(s) == CallWith(s, truncation_wavelength[s])

\* one pass of the while loop body, up to the next test of the loop
Resample(s) ==
    LET n    == args.no_of_packets
        size == DrawingSampleSize(args.drawing_sample_size, n)
        tf   == TruncationFrequency(truncation_wavelength[s])
        kept == Resampled(nus[s],
                    create_blackbody_packet_nus(seed, rng[s], args.T, size), tf, n)
    IN  /\ pc[s] = "loop"
        /\ nus' = [nus EXCEPT ![s] = kept]
        /\ rng' = [rng EXCEPT ![s] = Advance(rng[s], size)]
        /\ batches' = [batches EXCEPT ![s] = CountBatch(batches[s])]
        /\ tick' = 1 - tick
        /\ pc' = [pc EXCEPT ![s] = IF LoopCondition(kept, n) THEN "loop"
                                                             ELSE "returned"]
        /\ UNCHANGED <<seed, truncation_wavelength, args, mus, energies, start,
                       schemaVars>>

\* the caller, once both sources have returned, issues the next call
NextCall ==
    /\ \A s \in Sources : pc[s] = "returned"
    /\ args' \in Arguments
    /\ pc' = [s \in Sources |-> "idle"]
    /\ nus' = [s \in Sources |-> <<>>]
    /\ mus' = [s \in Sources |-> <<>>]
    /\ energies' = [s \in Sources |-> <<>>]
    /\ batches' = [s \in Sources |-> 0]
    /\ start' = rng
    /\ tick' = 0
    /\ UNCHANGED <<seed, truncation_wavelength, rng, schemaVars>>

-----------------------------------------------------------------------------
(* The top-level configuration schema *)

Absent == [type |-> "absent", value |-> ""]

JsonString(t) == [type |-> "string", value |-> t]

JsonNumber(t) == [type |-> "number", value |-> t]

\* a mapping, which conforms to the schema a $ref names or does not
JsonObject(c) == [type |-> "object", value |-> c]

\* properties:
Properties == {"tardis_config_version", "supernova", "atom_data", "plasma",
               "csvy_model", "model", "montecarlo", "spectrum"}

\* the properties declared type: string
StringProperties == {"tardis_config_version", "atom_data", "csvy_model"}

\* variant: montecarlo is required too
RequiredWithMontecarlo ==
    {"tardis_config_version", "atom_data", "spectrum", "montecarlo"}

\* required:
Required == {"tardis_config_version", "atom_data", "spectrum"}

\* keys a configuration file may hold: the declared ones and one that is not
Keys == Properties \cup {"undeclared"}

\* the values the model gives each key of a configuration file
KeyValues(k) ==
    CASE k = "tardis_config_version" ->
             {Absent, JsonString("1.0"), JsonString("2.0"), JsonNumber("1.0")}
      [] k = "atom_data" -> {Absent, JsonString("kurucz.h5"), JsonNumber("1.0")}
      [] k = "csvy_model" -> {Absent, JsonString("model.csvy")}
      [] k = "spectrum" ->
             {Absent, JsonObject("conforming"), JsonObject("nonconforming")}
      [] k = "undeclared" -> {Absent, JsonString("anything")}
      [] OTHER -> {Absent, JsonObject("conforming")}

Configs ==
    [tardis_config_version : KeyValues("tardis_config_version"),
     supernova : KeyValues("supernova"),
     atom_data : KeyValues("atom_data"),
     plasma : KeyValues("plasma"),
     csvy_model : KeyValues("csvy_model"),
     model : KeyValues("model"),
     montecarlo : KeyValues("montecarlo"),
     spectrum : KeyValues("spectrum"),
     undeclared : KeyValues("undeclared")]

Present(c) == {k \in Keys : c[k] # Absent}

\* type: string, or $ref: <section>.yml
PropertyValid(k, v) ==
    IF k \in StringProperties THEN v.type = "string"
    ELSE v.type = "object" /\ v.value = "conforming"

\* draft-04 validation of a mapping against the schema
Validates(c) ==
    /\ Present(c) \subseteq Properties
    /\ Required \subseteq Present(c)
    /\ \A k \in Present(c) \cap Properties : PropertyValid(k, c[k])

\* the configuration of a run whose packet sources are at work
ExampleConfig ==
    [k \in Keys |->
        CASE k = "tardis_config_version" -> JsonString("1.0")
          [] k = "atom_data" -> JsonString("kurucz.h5")
          [] k \in {"undeclared", "csvy_model"} -> Absent
          [] OTHER -> JsonObject("conforming")]

InitSchema ==
    /\ config = ExampleConfig
    /\ verdict = "unchecked"

\* the configuration is validated against the schema
Validate ==
    /\ verdict = "unchecked"
    /\ verdict' = IF Validates(config) THEN "accepted" ELSE "rejected"
    /\ UNCHANGED <<config, sourceVars>>

\* one entry of the configuration file is edited and the file is loaded again
LoadConfig ==
    /\ verdict # "unchecked"
    /\ \E k \in Keys : \E v \in KeyValues(k) :
           /\ v # config[k]
           /\ config' = [config EXCEPT ![k] = v]
    /\ verdict' = "unchecked"
    /\ UNCHANGED sourceVars

-----------------------------------------------------------------------------
(* Specifications *)

\* the packet sources at work under a validated configuration
Init ==
    /\ InitSources
    /\ config = ExampleConfig
    /\ verdict = "accepted"

Next ==
    \/ \E s \in Sources : Call(s)
    \/ \E s \in Sources : Resample(s)
    \/ NextCall

Spec == Init /\ [][Next]_vars

\* the interpreter keeps running: a step that can be taken is taken
FairSpec == Spec /\ WF_vars(Next)

\* configurations validated one after the other, before any packet is made
SchemaInit ==
    /\ InitSchema
    /\ seed = 0
    /\ truncation_wavelength = [s \in Sources |-> 4]
    /\ args = [T |-> 1, no_of_packets |-> 1, drawing_sample_size |-> NoneSize]
    /\ InitSources

SchemaNext ==
    \/ Validate
    \/ LoadConfig

SchemaSpec == SchemaInit /\ [][SchemaNext]_vars

-----------------------------------------------------------------------------
(* What a call has drawn, read off the seed's stream *)

Returned(s) == pc[s] = "returned"

InCall(s) == pc[s] # "idle"

\* the batch size the arguments of the running call ask for
BatchSize == IF args.drawing_sample_size = NoneSize
             THEN 2 * args.no_of_packets
             ELSE args.drawing_sample_size

\* the truncation frequency, from frequency * wavelength = C_LIGHT
Cutoff(s) == CHOOSE f \in 0 .. C_LIGHT : f * truncation_wavelength[s] = C_LIGHT

\* the batch count is exact (the counter has not saturated)
Counted(s) == batches[s] < MaxBatches

\* the first k batches of the running call, concatenated
DrawnIn(s, k) ==
    [i \in 1 .. (k * BatchSize) |-> args.T * RawDraw(seed, start[s] + i - 1)]

\* how many samples of the first k batches lie strictly below the cutoff
AcceptedIn(s, k) ==
    Cardinality({i \in 1 .. (k * BatchSize) : DrawnIn(s, k)[i] < Cutoff(s)})

-----------------------------------------------------------------------------
(* C1: whenever create_packets returns, the frequencies, the direction      *)
(* cosines and the energies each have length exactly no_of_packets.         *)
C1_ExactlyN ==
    \A s \in Sources :
        Returned(s) =>
            /\ Len(nus[s]) = args.no_of_packets
            /\ Len(mus[s]) = args.no_of_packets
            /\ Len(energies[s]) = args.no_of_packets

\* a call of two packets that needed extra batches, the last of which held
\* more accepted frequencies than were still missing
C1_Witness ==
    \E s \in Sources :
        /\ Returned(s)
        /\ args.no_of_packets = 2
        /\ batches[s] >= 2
        /\ Counted(s)
        /\ AcceptedIn(s, batches[s]) > 2
        /\ Len(nus[s]) = 2

(* C2 as claimed: no frequency create_packets returns is below the          *)
(* truncation frequency.                                                    *)
C2_NoneBelowCutoff ==
    \A s \in Sources :
        Returned(s) => \A i \in DOMAIN nus[s] : nus[s][i] >= Cutoff(s)

(* C2, amended: the excluded side is the other one. Every frequency         *)
(* create_packets returns has a wavelength above the truncation wavelength: *)
(* frequency * truncation_wavelength < C_LIGHT.                             *)
C2_NoneAtOrAboveCutoff ==
    \A s \in Sources :
        Returned(s) =>
            \A i \in DOMAIN nus[s] :
                nus[s][i] * truncation_wavelength[s] < C_LIGHT

\* a returned call that drew a frequency above the cutoff and left it out
C2_Witness ==
    \E s \in Sources :
        /\ Returned(s)
        /\ Counted(s)
        /\ \E i \in DOMAIN DrawnIn(s, batches[s]) :
               DrawnIn(s, batches[s])[i] > Cutoff(s)
        /\ nus[s] # <<>>

(* C3: at every point of a call, every kept frequency is strictly less than *)
(* the truncation frequency, whichever batch it came from; a sample equal   *)
(* to the truncation frequency is never kept.                               *)
C3_StrictlyBelowCutoff ==
    \A s \in Sources :
        \A i \in DOMAIN nus[s] :
            nus[s][i] < TruncationFrequency(truncation_wavelength[s])

\* a returned call whose resampling batches drew a sample equal to the
\* truncation frequency
C3_Witness ==
    \E s \in Sources :
        /\ Returned(s)
        /\ batches[s] >= 2
        /\ Counted(s)
        /\ \E i \in (BatchSize + 1) .. (batches[s] * BatchSize) :
               DrawnIn(s, batches[s])[i] =
                   TruncationFrequency(truncation_wavelength[s])
        /\ Len(nus[s]) = args.no_of_packets

-----------------------------------------------------------------------------
(* C7: the schema requires exactly tardis_config_version, atom_data and     *)
(* spectrum. A configuration lacking one of them is rejected; one that has  *)
(* the three, no undeclared key, and values of the declared kinds is        *)
(* accepted, whichever of the other five properties it holds or lacks.      *)
C7_RequiredThree ==
    LET three == {"tardis_config_version", "atom_data", "spectrum"}
        wellFormed ==
            /\ config["tardis_config_version"].type \in {"absent", "string"}
            /\ config["atom_data"].type \in {"absent", "string"}
            /\ config["csvy_model"].type \in {"absent", "string"}
            /\ \A k \in {"supernova", "plasma", "model", "montecarlo", "spectrum"} :
                   config[k].value # "nonconforming"
    IN  verdict # "unchecked" =>
            /\ (\E k \in three : config[k] = Absent) => verdict = "rejected"
            /\ ( /\ \A k \in three : config[k] # Absent
                 /\ config["undeclared"] = Absent
                 /\ wellFormed ) => verdict = "accepted"

\* a configuration of the three required fields and nothing else, accepted
C7_Witness ==
    /\ verdict = "accepted"
    /\ Present(config) = {"tardis_config_version", "atom_data", "spectrum"}

(* C8: a configuration whose tardis_config_version is anything but 1.0 is   *)
(* rejected by the schema.                                                  *)
C8_OnlyVersionOne ==
    verdict = "accepted" => config["tardis_config_version"] = JsonString("1.0")

-----------------------------------------------------------------------------
\* the batch the next pass of the loop draws holds an accepted frequency
NextBatchAccepts(s) ==
    Accepted(create_blackbody_packet_nus(seed, rng[s], args.T,
                 DrawingSampleSize(args.drawing_sample_size, args.no_of_packets)),
             TruncationFrequency(truncation_wavelength[s])) # <<>>

(* C4: every call of create_packets ends, by returning or by failing with a *)
(* SamplingError, after a bounded number of resampling batches: a call in   *)
(* the resampling loop eventually leaves it.                                *)
C4_EveryCallEnds ==
    \A s \in Sources : (pc[s] = "loop") ~> (pc[s] # "loop")

(* C5: if batches that hold at least one accepted frequency keep being      *)
(* drawn, every call of create_packets eventually returns.                  *)
C5_ReturnsIfBatchesKeepAccepting ==
    \A s \in Sources :
        ([]<><<Resample(s) /\ NextBatchAccepts(s)>>_vars)
            => [](InCall(s) => <>Returned(s))

\* a call that returned after three or more batches
C5_Witness ==
    \E s \in Sources :
        /\ Returned(s)
        /\ batches[s] >= 3
        /\ args.drawing_sample_size >= 1
        /\ Len(nus[s]) = args.no_of_packets

C9_FirstNAccepted ==
    /\ [](\A s \in Sources :
              (InCall(s) /\ Counted(s)) =>
                  nus[s] = Take(SelectSeq(DrawnIn(s, batches[s]),
                                          LAMBDA x : x < Cutoff(s)),
                                args.no_of_packets))
    /\ [][\A s \in Sources :
              pc[s] = "loop" =>
                  /\ Len(nus'[s]) <= args.no_of_packets
                  /\ Len(nus'[s]) >= Len(nus[s])
                  /\ SubSeq(nus'[s], 1, Len(nus[s])) = nus[s]]_vars

\* a returned call that kept a frequency of its first batch and cut its last
\* batch short
C9_Witness ==
    \E s \in Sources :
        /\ Returned(s)
        /\ batches[s] >= 2
        /\ Counted(s)
        /\ AcceptedIn(s, 1) >= 1
        /\ AcceptedIn(s, batches[s]) > args.no_of_packets
        /\ \E i, j \in DOMAIN nus[s] : nus[s][i] # nus[s][j]

(* C10: a call draws batches of drawing_sample_size samples (twice          *)
(* no_of_packets when none is given), and a further batch only while fewer  *)
(* than no_of_packets accepted frequencies are held: a returning call has   *)
(* drawn the least number k >= 1 of batches that together hold              *)
(* no_of_packets accepted samples, and has advanced the generator by k      *)
(* batches from where the first batch began.                                *)
C10_LeastBatches ==
    \A s \in Sources :
        (InCall(s) /\ Counted(s)) =>
            /\ rng[s] = (start[s] + batches[s] * BatchSize) % Period
            /\ \A j \in 1 .. (batches[s] - 1) :
                   AcceptedIn(s, j) < args.no_of_packets
            /\ Returned(s) => AcceptedIn(s, batches[s]) >= args.no_of_packets
            /\ pc[s] = "loop" => AcceptedIn(s, batches[s]) < args.no_of_packets

\* a call given no drawing_sample_size that returned after a second batch
C10_Witness ==
    \E s \in Sources :
        /\ Returned(s)
        /\ args.drawing_sample_size = NoneSize
        /\ batches[s] = 2

====
